---------------------------- MODULE Spec2Model ----------------------------
(***************************************************************************)
(* A model of the three puzzle modules (day1, day2, day3) and of the       *)
(* command-line runner (main).  Every puzzle function is a pure            *)
(* computation over a string; each is modelled by the loop the code runs,  *)
(* one action per iteration, under a specification of its own whose Init   *)
(* draws the input from a bounded set:                                     *)
(*                                                                         *)
(*   SpecMultiMax   day1.rs  multi_max                                     *)
(*   SpecDay1       day1.rs  group_stashes, part1, part2                   *)
(*   SpecDay2       day2.rs  parse_rounds, reconstruct_rounds, score_rounds*)
(*   SpecRucksack   day3.rs  Rucksack::parse                               *)
(*   SpecRucksack   day3.rs  Rucksack::parse, part1                        *)
(*   SpecPart2      day3.rs  Group::parse, Group::score, part2             *)
(*   SpecMain       main.rs  main, run_day!                                *)
(*   SpecPuzzles    day1.rs, day2.rs, day3.rs  the parts that read lines   *)
(*                                                                         *)
(* A Result<T, Report> is a record [ok |-> TRUE, val |-> v] or             *)
(* [ok |-> FALSE, err |-> chain], the chain being the messages of the      *)
(* Report, outermost context first; a panic is the chain <<"panic">>.      *)
(***************************************************************************)
EXTENDS Integers, Sequences, FiniteSets, TLC

VARIABLES
    \* ---- day1.rs multi_max ----
    mm_input,     \* the items of the iterator `self`, as given
    mm_iter,      \* the items the for loop has not consumed yet
    count,        \* the parameter `count`
    maxes,        \* the local `maxes`
    mm_pc,        \* "loop" | "returned" ("idle" under the other specifications)
    \* ---- day1.rs group_stashes, part1, part2 ----
    gs_input,     \* the parameter `input`, a sequence of characters
    gs_lines,     \* the lines of input.lines() that try_fold has not consumed yet
    elves,        \* the accumulator `elves` of try_fold
    gs_result,    \* what group_stashes returned
    d1_part1,     \* what part1 returned
    d1_part2,     \* what part2 returned
    gs_pc,        \* "fold" | "returned" ("idle" under the other specifications)
    \* ---- day2.rs part1 (mode "direct"), part2 (mode "constraint") ----
    d2_mode,      \* which of part1 / part2 runs
    d2_read,      \* the lines input.lines() has yielded so far
    d2_parsed,    \* the pairs parse_rounds has collected so far
    d2_rounds,    \* the (opponent, player) pairs handed to score_rounds
    d2_scores,    \* the round scores score_rounds has mapped so far
    d2_result,    \* what part1 / part2 returned
    d2_pc,        \* "parse" | "reconstruct" | "score" | "returned" ("idle")
    \* ---- day3.rs calculate_priority ----
    pr_item,      \* the parameter `item_type`, a code point
    pr_result,    \* what calculate_priority returned
    \* ---- day3.rs Rucksack::parse ----
    rs_input,     \* the parameter `input`, a sequence of code points
    rs_result,    \* what Rucksack::parse returned
    \* ---- day3.rs part2 ----
    p2_read,      \* the lines pulled from input.lines().chunks(3) so far
    p2_chunk,     \* the rucksacks Group::parse has collected of the current chunk
    p2_groups,    \* the groups part2 has collected so far
    p2_scores,    \* the scores score_groups has collected so far
    p2_result,    \* what part2 returned
    p2_pc,        \* "parse" | "score" | "returned" ("idle")
    \* ---- day3.rs part1 ----
    p1_read,      \* the lines input.lines() has yielded so far
    p1_sacks,     \* the rucksacks collected so far
    p1_result,    \* what part1 returned
    p1_pc,        \* "parse" | "returned" ("idle")
    \* ---- main.rs main ----
    run_day,      \* index of the run_day! invocation main is in (1..3)
    run_pc,       \* "banner" | "header" | "part1" | "part2" | "blank" | "exited" ("idle")
    run_out,      \* the lines printed to standard output so far
    run_calls,    \* the part functions called so far, each with its result
    run_exit      \* "running" | "success" | "failure"

mm_vars == <<mm_input, mm_iter, count, maxes, mm_pc>>
gs_vars == <<gs_input, gs_lines, elves, gs_result, d1_part1, d1_part2, gs_pc>>
d2_vars == <<d2_mode, d2_read, d2_parsed, d2_rounds, d2_scores, d2_result, d2_pc>>
pr_vars == <<pr_item, pr_result>>
rs_vars == <<rs_input, rs_result>>
p2_vars == <<p2_read, p2_chunk, p2_groups, p2_scores, p2_result, p2_pc>>
p1_vars == <<p1_read, p1_sacks, p1_result, p1_pc>>
run_vars == <<run_day, run_pc, run_out, run_calls, run_exit>>

vars == <<mm_vars, gs_vars, d2_vars, pr_vars, rs_vars, p2_vars, p1_vars, run_vars>>

\* What the actions of one component leave alone: the other components.
mm_others == <<gs_vars, d2_vars, pr_vars, rs_vars, p2_vars, p1_vars, run_vars>>
gs_others == <<mm_vars, d2_vars, pr_vars, rs_vars, p2_vars, p1_vars, run_vars>>
d2_others == <<mm_vars, gs_vars, pr_vars, rs_vars, p2_vars, p1_vars, run_vars>>
pr_others == <<mm_vars, gs_vars, d2_vars, rs_vars, p2_vars, p1_vars, run_vars>>
rs_others == <<mm_vars, gs_vars, d2_vars, pr_vars, p2_vars, p1_vars, run_vars>>
p2_others == <<mm_vars, gs_vars, d2_vars, pr_vars, rs_vars, p1_vars, run_vars>>
p1_others == <<mm_vars, gs_vars, d2_vars, pr_vars, rs_vars, p2_vars, run_vars>>
run_others == <<mm_vars, gs_vars, d2_vars, pr_vars, rs_vars, p2_vars, p1_vars>>

(***************************************************************************)
(* Bounds of the model.                                                    *)
(***************************************************************************)
MaxItems == 4      \* longest sequence given to multi_max
MaxItem  == 3      \* largest value given to multi_max
MaxCount == 3      \* largest `count` given to multi_max
MaxInputLen == 6   \* longest day1 input, in characters
MaxRounds == 3     \* most lines of a day2 input
MaxCodePoint == 255   \* largest code point given to calculate_priority
MaxSackLen == 4    \* longest line given to Rucksack::parse, in characters
MaxGroupLineLen == 3  \* longest line of a part2 input, in characters
MaxGroupLines == 4 \* most lines of a part2 input
MaxAnswer == 1     \* largest answer a part function returns to main
MaxPart1LineLen == 3  \* longest line of a day3 part1 input, in characters
MaxPart1Lines == 3 \* most lines of a day3 part1 input

(***************************************************************************)
(* Generic helpers.                                                        *)
(***************************************************************************)
Ok(v)  == [ok |-> TRUE, val |-> v]
Err(k) == [ok |-> FALSE, err |-> <<k>>]
None   == [ok |-> FALSE, err |-> <<"none">>]   \* "no result yet"

\* WrapErr::wrap_err_with: an Err gets the context in front of its chain.
WrapErr(context, r) == IF r.ok THEN r ELSE [ok |-> FALSE, err |-> <<context>> \o r.err]

Min2(a, b) == IF a <= b THEN a ELSE b

SeqsUpTo(S, n) == UNION {[1..k -> S] : k \in 0..n}

RECURSIVE SumSeq(_)
SumSeq(s) == IF s = <<>> THEN 0 ELSE Head(s) + SumSeq(Tail(s))

\* Number of positions of s holding v.
Occurrences(s, v) == Cardinality({i \in DOMAIN s : s[i] = v})

IsNonDecreasing(s) == \A i \in 1..(Len(s) - 1) : s[i] <= s[i + 1]

Permutations_(s) ==
    {[i \in DOMAIN s |-> s[p[i]]] :
        p \in {q \in [DOMAIN s -> DOMAIN s] : \A i, j \in DOMAIN s : q[i] = q[j] => i = j}}

(***************************************************************************)
(* day1.rs: multi_max                                                      *)
(***************************************************************************)

\* slice::sort on integers: insertion of each item into an ascending prefix.
RECURSIVE InsertAsc(_, _)
InsertAsc(s, v) ==
    IF s = <<>> THEN <<v>>
    ELSE IF v < Head(s) THEN <<v>> \o s
    ELSE <<Head(s)>> \o InsertAsc(Tail(s), v)

RECURSIVE SortAsc(_)
SortAsc(s) == IF s = <<>> THEN <<>> ELSE InsertAsc(SortAsc(Tail(s)), Head(s))

\* Mutant of the inner loop: the scan does not stop at the first entry
\* strictly less than current_value, the last such entry is overwritten.
ReplaceLastLess(s, current_value) ==
    LET less == {i \in DOMAIN s : s[i] < current_value}
    IN  IF less = {} THEN s
        ELSE [s EXCEPT ![CHOOSE i \in less : \A j \in less : j <= i] = current_value]

\* day1.rs:111-116: the first entry strictly less than current_value is
\* overwritten, and the scan stops there.
RECURSIVE ReplaceFirstLess(_, _)
ReplaceFirstLess(s, current_value) ==
    IF s = <<>> THEN <<>>
    ELSE IF Head(s) < current_value THEN <<current_value>> \o Tail(s)
    ELSE <<Head(s)>> \o ReplaceFirstLess(Tail(s), current_value)

\* Mutant of the loop body: the trailing maxes.sort() is left out.
MultiMaxBodyNoSort(prev, cnt, current_value) ==
    IF Len(prev) < cnt THEN Append(prev, current_value)
    ELSE ReplaceFirstLess(prev, current_value)

\* day1.rs:108-122: one iteration of the for loop, the trailing sort included.
MultiMaxBody(prev, cnt, current_value) ==
    SortAsc(IF Len(prev) < cnt THEN Append(prev, current_value)
            ELSE ReplaceFirstLess(prev, current_value))

\* day1.rs:104-126 as a function: the loop folded over the items.
RECURSIVE MultiMaxFrom(_, _, _)
MultiMaxFrom(prev, items, cnt) ==
    IF items = <<>> THEN prev
    ELSE MultiMaxFrom(MultiMaxBody(prev, cnt, Head(items)), Tail(items), cnt)

multi_max(items, cnt) == MultiMaxFrom(<<>>, items, cnt)

MultiMaxInit ==
    /\ mm_input \in SeqsUpTo(0..MaxItem, MaxItems)
    /\ mm_iter = mm_input
    /\ count \in 0..MaxCount
    /\ maxes = <<>>
    /\ mm_pc = "loop"

MultiMaxIdle ==
    /\ mm_input = <<>> /\ mm_iter = <<>> /\ count = 0 /\ maxes = <<>>
    /\ mm_pc = "idle"

\* day1.rs:107-123
MultiMaxStep ==
    /\ mm_pc = "loop"
    /\ mm_iter # <<>>
    /\ maxes' = MultiMaxBody(maxes, count, Head(mm_iter))
    /\ mm_iter' = Tail(mm_iter)
    /\ UNCHANGED <<mm_input, count, mm_pc, mm_others>>

\* day1.rs:125
MultiMaxReturn ==
    /\ mm_pc = "loop"
    /\ mm_iter = <<>>
    /\ mm_pc' = "returned"
    /\ UNCHANGED <<mm_input, mm_iter, count, maxes, mm_others>>

NextMultiMax == MultiMaxStep \/ MultiMaxReturn

(***************************************************************************)
(* day1.rs: group_stashes, part1, part2                                    *)
(***************************************************************************)

\* The characters a day1 input is drawn from: two digits, a sign, a character
\* that is neither, and the line feed.
Day1Chars == {"1", "2", "+", "x", "\n"}

Digits == {"0", "1", "2", "3", "4", "5", "6", "7", "8", "9"}

DigitValue(c) ==
    CASE c = "0" -> 0 [] c = "1" -> 1 [] c = "2" -> 2 [] c = "3" -> 3
      [] c = "4" -> 4 [] c = "5" -> 5 [] c = "6" -> 6 [] c = "7" -> 7
      [] c = "8" -> 8 [] c = "9" -> 9

\* str::lines over an input without carriage returns: the pieces between line
\* feeds; a final line feed does not start another (empty) line.
RECURSIVE LinesFrom(_, _)
LinesFrom(cur, rest) ==
    IF rest = <<>> THEN (IF cur = <<>> THEN <<>> ELSE <<cur>>)
    ELSE IF Head(rest) = "\n" THEN <<cur>> \o LinesFrom(<<>>, Tail(rest))
    ELSE LinesFrom(Append(cur, Head(rest)), Tail(rest))

Lines(input) == LinesFrom(<<>>, input)

RECURSIVE DecimalValue(_, _)
DecimalValue(acc, ds) ==
    IF ds = <<>> THEN acc
    ELSE DecimalValue(acc * 10 + DigitValue(Head(ds)), Tail(ds))

\* str::parse::<usize>: an optional leading "+", then one or more decimal
\* digits; the empty string, a lone sign and any other character are errors.
\* (A value above usize::MAX is an error too; MaxInputLen digits cannot reach it.)
ParseUsize(line) ==
    LET ds == IF Len(line) > 1 /\ Head(line) = "+" THEN Tail(line) ELSE line
    IN  IF line = <<>> THEN Err("cannot parse integer from empty string")
        ELSE IF \A i \in DOMAIN ds : ds[i] \in Digits
             THEN Ok(DecimalValue(0, ds))
             ELSE Err("invalid digit found in string")

\* day1.rs:57-60
parse_calories(line) == WrapErr("parse input", ParseUsize(line))

\* Mutant of the fold closure: a number always starts a total of its own.
StashFoldBodyAlwaysPush(acc, food) ==
    IF food = <<>> THEN Ok(Append(acc, 0))
    ELSE LET calories == parse_calories(food)
         IN  IF ~calories.ok THEN calories
             ELSE Ok(Append(acc, calories.val))

\* day1.rs:76-87: the closure try_fold applies to each line.
StashFoldBody(acc, food) ==
    IF food = <<>> THEN Ok(Append(acc, 0))
    ELSE LET calories == parse_calories(food)
         IN  IF ~calories.ok THEN calories
             ELSE IF acc # <<>>
                  THEN Ok([acc EXCEPT ![Len(acc)] = @ + calories.val])
                  ELSE Ok(Append(acc, calories.val))

\* Iterator::max().unwrap_or_default()
RECURSIVE MaxOrDefault(_)
MaxOrDefault(s) ==
    IF s = <<>> THEN 0
    ELSE LET m == MaxOrDefault(Tail(s)) IN IF Head(s) >= m THEN Head(s) ELSE m

TopCount == 3

Top3Sum(stashes) == SumSeq(multi_max(stashes, TopCount))

Day1Init ==
    /\ gs_input \in SeqsUpTo(Day1Chars, MaxInputLen)
    /\ gs_lines = Lines(gs_input)
    /\ elves = <<>>
    /\ gs_result = None
    /\ d1_part1 = None
    /\ d1_part2 = None
    /\ gs_pc = "fold"

Day1Idle ==
    /\ gs_input = <<>> /\ gs_lines = <<>> /\ elves = <<>>
    /\ gs_result = None /\ d1_part1 = None /\ d1_part2 = None
    /\ gs_pc = "idle"

\* day1.rs:76-87: one line folded; the first Err ends group_stashes.
StashFoldStep ==
    /\ gs_pc = "fold"
    /\ gs_lines # <<>>
    /\ LET r == StashFoldBody(elves, Head(gs_lines))
       IN  IF r.ok
           THEN /\ elves' = r.val
                /\ gs_lines' = Tail(gs_lines)
                /\ UNCHANGED <<gs_result, gs_pc>>
           ELSE /\ gs_result' = r
                /\ gs_pc' = "returned"
                /\ UNCHANGED <<elves, gs_lines>>
    /\ UNCHANGED <<gs_input, d1_part1, d1_part2, gs_others>>

\* day1.rs:74-88: the lines are used up, try_fold yields Ok(elves).
StashFoldEnd ==
    /\ gs_pc = "fold"
    /\ gs_lines = <<>>
    /\ gs_result' = Ok(elves)
    /\ gs_pc' = "returned"
    /\ UNCHANGED <<gs_input, gs_lines, elves, d1_part1, d1_part2, gs_others>>

\* day1.rs:37-39
Day1Part1 ==
    /\ gs_pc = "returned"
    /\ d1_part1 = None
    /\ d1_part1' = IF gs_result.ok THEN Ok(MaxOrDefault(gs_result.val)) ELSE gs_result
    /\ UNCHANGED <<gs_input, gs_lines, elves, gs_result, d1_part2, gs_pc, gs_others>>

\* day1.rs:53-55
Day1Part2 ==
    /\ gs_pc = "returned"
    /\ d1_part2 = None
    /\ d1_part2' = IF gs_result.ok THEN Ok(Top3Sum(gs_result.val)) ELSE gs_result
    /\ UNCHANGED <<gs_input, gs_lines, elves, gs_result, d1_part1, gs_pc, gs_others>>

NextDay1 == StashFoldStep \/ StashFoldEnd \/ Day1Part1 \/ Day1Part2

(***************************************************************************)
(* day2.rs                                                                 *)
(***************************************************************************)

\* A character that takes two bytes in UTF-8 (U+00E9); every other character
\* of the model takes one.
Wide == "U+00E9"

Utf8Len(c) == IF c = Wide THEN 2 ELSE 1

\* str::len: the length in bytes.
RECURSIVE ByteLen(_)
ByteLen(str) == IF str = <<>> THEN 0 ELSE Utf8Len(Head(str)) + ByteLen(Tail(str))

\* The lines a day2 input is drawn from: the empty line, and two or three
\* characters, the second one a space or the two-byte character.
Day2Tokens == {"A", "B", "C", "X", "Y", "Z"}
Day2Seps == {" ", Wide}
Day2Lines ==
    {<<>>}
    \cup {<<a, sep>> : a \in Day2Tokens, sep \in Day2Seps}
    \cup {<<a, sep, b>> : a \in Day2Tokens, sep \in Day2Seps, b \in Day2Tokens}

\* Chars::next at position i: Some(c) is Ok(c), None is Err("none").
CharAt(str, i) == IF i <= Len(str) THEN Ok(str[i]) ELSE None

\* day2.rs:182-190
OpponentMoveParse(input) ==
    IF ~input.ok THEN Err("unexpected end of input")
    ELSE CASE input.val = "A" -> Ok("Rock")
           [] input.val = "B" -> Ok("Paper")
           [] input.val = "C" -> Ok("Scissors")
           [] OTHER -> Err("unexpected input")

\* day2.rs:212-220
PlayerMoveParse(input) ==
    IF ~input.ok THEN Err("unexpected end of input")
    ELSE CASE input.val = "X" -> Ok("Rock")
           [] input.val = "Y" -> Ok("Paper")
           [] input.val = "Z" -> Ok("Scissors")
           [] OTHER -> Err("unexpected input")

\* day2.rs:276-284
PlayerConstraintParse(input) ==
    IF ~input.ok THEN Err("unexpected end of input")
    ELSE CASE input.val = "X" -> Ok("PlayerLose")
           [] input.val = "Y" -> Ok("Draw")
           [] input.val = "Z" -> Ok("PlayerWin")
           [] OTHER -> Err("unexpected input")

\* day2.rs:116-130
parse_round(input) ==
    IF ByteLen(input) # 3 THEN Err("inputs must consist of 3 characters")
    ELSE LET opponent == OpponentMoveParse(CharAt(input, 1))
             player == PlayerMoveParse(CharAt(input, 3))
         IN  IF ~opponent.ok THEN opponent
             ELSE IF ~player.ok THEN player
             ELSE Ok(<<opponent.val, player.val>>)

\* day2.rs:132-146
parse_constraint(input) ==
    IF ByteLen(input) # 3 THEN Err("inputs must consist of 3 characters")
    ELSE LET opponent == OpponentMoveParse(CharAt(input, 1))
             player == PlayerConstraintParse(CharAt(input, 3))
         IN  IF ~opponent.ok THEN opponent
             ELSE IF ~player.ok THEN player
             ELSE Ok(<<opponent.val, player.val>>)

Moves == {"Rock", "Paper", "Scissors"}
Outcomes == {"PlayerLose", "Draw", "PlayerWin"}

\* Mutant of the comparison: Scissors against Rock compares as Greater.
PartialCmpScissorsBeatRock(self, other) ==
    CASE self = "Rock" ->
            (CASE other = "Rock" -> "Equal"
               [] other = "Paper" -> "Less"
               [] other = "Scissors" -> "Greater")
      [] self = "Paper" ->
            (CASE other = "Rock" -> "Greater"
               [] other = "Paper" -> "Equal"
               [] other = "Scissors" -> "Less")
      [] self = "Scissors" ->
            (CASE other = "Rock" -> "Greater"
               [] other = "Paper" -> "Greater"
               [] other = "Scissors" -> "Equal")

\* day2.rs:246-264: the body both PartialOrd impls are generated from; each
\* arm is Some(ordering), never None.
PartialCmp(self, other) ==
    CASE self = "Rock" ->
            (CASE other = "Rock" -> "Equal"
               [] other = "Paper" -> "Less"
               [] other = "Scissors" -> "Greater")
      [] self = "Paper" ->
            (CASE other = "Rock" -> "Greater"
               [] other = "Paper" -> "Equal"
               [] other = "Scissors" -> "Less")
      [] self = "Scissors" ->
            (CASE other = "Rock" -> "Less"
               [] other = "Paper" -> "Greater"
               [] other = "Scissors" -> "Equal")

\* day2.rs:240-245: impl PartialOrd<PlayerMove> for OpponentMove
OpponentPartialCmp(opponent, player) == PartialCmp(opponent, player)

\* day2.rs:240-245: impl PartialOrd<OpponentMove> for PlayerMove
PlayerPartialCmp(player, opponent) == PartialCmp(player, opponent)

\* day2.rs:107-114
evaluate_round(opponent, player) ==
    LET cmp == OpponentPartialCmp(opponent, player)
    IN  CASE cmp = "Less" -> "PlayerWin"
          [] cmp = "Equal" -> "Draw"
          [] cmp = "Greater" -> "PlayerLose"
          [] OTHER -> "unreachable"

\* day2.rs:293-301: impl PartialEq<PlayerConstraint> for Round
RoundEqConstraint(self, other) ==
    CASE self = "Draw" -> other = "Draw"
      [] self = "PlayerWin" -> other = "PlayerWin"
      [] self = "PlayerLose" -> other = "PlayerLose"
      [] OTHER -> FALSE

\* PlayerMove::iter(): the variants in declaration order (day2.rs:195-199).
PlayerMoveIter == <<"Rock", "Paper", "Scissors">>

RECURSIVE DesiredMoveFrom(_, _, _)
DesiredMoveFrom(possible, opponent, constraint) ==
    IF possible = <<>> THEN Err("no possible move found")
    ELSE IF RoundEqConstraint(evaluate_round(opponent, Head(possible)), constraint)
         THEN Ok(Head(possible))
         ELSE DesiredMoveFrom(Tail(possible), opponent, constraint)

\* Mutant of desired_move: the outcome of the candidate move is not compared
\* with the constraint, the first candidate is returned.
DesiredMoveUnchecked(opponent, constraint) == Ok(Head(PlayerMoveIter))

\* day2.rs:92-104
desired_move(opponent, constraint) ==
    DesiredMoveFrom(PlayerMoveIter, opponent, constraint)

\* day2.rs:163-171
RoundScore(round) ==
    CASE round = "PlayerLose" -> 0
      [] round = "Draw" -> 3
      [] round = "PlayerWin" -> 6

\* day2.rs:201-209
PlayerMoveScore(player) ==
    CASE player = "Rock" -> 1
      [] player = "Paper" -> 2
      [] player = "Scissors" -> 3

\* Mutant of round_score: the score of the move played is left out.
RoundScoreOutcomeOnly(opponent, player) ==
    RoundScore(evaluate_round(opponent, player))

\* day2.rs:148-150
round_score(opponent, player) ==
    RoundScore(evaluate_round(opponent, player)) + PlayerMoveScore(player)

Day2Init ==
    /\ d2_mode \in {"direct", "constraint"}
    /\ d2_read = <<>>
    /\ d2_parsed = <<>>
    /\ d2_rounds = <<>>
    /\ d2_scores = <<>>
    /\ d2_result = None
    /\ d2_pc = "parse"

Day2Idle ==
    /\ d2_mode = "direct" /\ d2_read = <<>> /\ d2_parsed = <<>> /\ d2_rounds = <<>>
    /\ d2_scores = <<>> /\ d2_result = None /\ d2_pc = "idle"

\* day2.rs:69: input.lines().map(parser).collect() takes the next line; the
\* first Err ends the collection and part1 / part2 with it.
D2ParseLine ==
    /\ d2_pc = "parse"
    /\ Len(d2_read) < MaxRounds
    /\ \E line \in Day2Lines :
          LET r == IF d2_mode = "direct" THEN parse_round(line)
                   ELSE parse_constraint(line)
          IN  /\ d2_read' = Append(d2_read, line)
              /\ IF r.ok
                 THEN /\ d2_parsed' = Append(d2_parsed, r.val)
                      /\ UNCHANGED <<d2_result, d2_pc>>
                 ELSE /\ d2_result' = r
                      /\ d2_pc' = "returned"
                      /\ UNCHANGED d2_parsed
    /\ UNCHANGED <<d2_mode, d2_rounds, d2_scores, d2_others>>

\* day2.rs:45 and 61-63: the lines are used up; part1 hands the pairs to
\* score_rounds, part2 hands them to reconstruct_rounds.
D2ParseEnd ==
    /\ d2_pc = "parse"
    /\ IF d2_mode = "direct"
       THEN d2_rounds' = d2_parsed /\ d2_pc' = "score"
       ELSE d2_rounds' = <<>> /\ d2_pc' = "reconstruct"
    /\ UNCHANGED <<d2_mode, d2_read, d2_parsed, d2_scores, d2_result, d2_others>>

\* day2.rs:84-87: one pair reconstructed; the first Err ends part2.
D2ReconstructRound ==
    /\ d2_pc = "reconstruct"
    /\ Len(d2_rounds) < Len(d2_parsed)
    /\ LET pair == d2_parsed[Len(d2_rounds) + 1]
           player_move == desired_move(pair[1], pair[2])
       IN  IF player_move.ok
           THEN /\ d2_rounds' = Append(d2_rounds, <<pair[1], player_move.val>>)
                /\ UNCHANGED <<d2_result, d2_pc>>
           ELSE /\ d2_result' = player_move
                /\ d2_pc' = "returned"
                /\ UNCHANGED d2_rounds
    /\ UNCHANGED <<d2_mode, d2_read, d2_parsed, d2_scores, d2_others>>

\* day2.rs:82-88: every pair is reconstructed, the rounds go to score_rounds.
D2ReconstructEnd ==
    /\ d2_pc = "reconstruct"
    /\ Len(d2_rounds) = Len(d2_parsed)
    /\ d2_pc' = "score"
    /\ UNCHANGED <<d2_mode, d2_read, d2_parsed, d2_rounds, d2_scores, d2_result, d2_others>>

\* day2.rs:75: one round mapped to its score.
D2ScoreRound ==
    /\ d2_pc = "score"
    /\ Len(d2_scores) < Len(d2_rounds)
    /\ LET round == d2_rounds[Len(d2_scores) + 1]
       IN  d2_scores' = Append(d2_scores, round_score(round[1], round[2]))
    /\ UNCHANGED <<d2_mode, d2_read, d2_parsed, d2_rounds, d2_result, d2_pc, d2_others>>

\* day2.rs:76: the sum of the round scores is the answer.
D2ScoreEnd ==
    /\ d2_pc = "score"
    /\ Len(d2_scores) = Len(d2_rounds)
    /\ d2_result' = Ok(SumSeq(d2_scores))
    /\ d2_pc' = "returned"
    /\ UNCHANGED <<d2_mode, d2_read, d2_parsed, d2_rounds, d2_scores, d2_others>>

NextDay2 ==
    \/ D2ParseLine
    \/ D2ParseEnd
    \/ D2ReconstructRound
    \/ D2ReconstructEnd
    \/ D2ScoreRound
    \/ D2ScoreEnd

(***************************************************************************)
(* day3.rs.  A character is its code point.                                *)
(***************************************************************************)
LowerA == 97
LowerZ == 122
UpperA == 65
UpperZ == 90

\* A RangeInclusive<char> as the sequence it iterates.
CharRange(first, last) == [i \in 1..(last - first + 1) |-> first + i - 1]

\* Iterator::enumerate: (index, item) with the index counted from 0.
Enumerate(items) == [i \in DOMAIN items |-> <<i - 1, items[i]>>]

\* day3.rs:216
Flip(pair) == <<pair[2], pair[1]>>

\* Mutant of idx_to_count: the index is kept as it is.
IdxToCountIdentity(pair) == pair

\* day3.rs:217
IdxToCount(pair) == <<pair[1], pair[2] + 1>>

\* day3.rs:214-218: the (char, count) pairs HashMap::from_iter is given.
PriorityPairs ==
    LET chained == Enumerate(CharRange(LowerA, LowerZ) \o CharRange(UpperA, UpperZ))
    IN  [i \in DOMAIN chained |-> IdxToCount(Flip(chained[i]))]

\* day3.rs:213-219: the map; of two pairs with one key the later one stays.
PRIORITY ==
    [c \in {PriorityPairs[i][1] : i \in DOMAIN PriorityPairs} |->
        LET last == CHOOSE i \in DOMAIN PriorityPairs :
                        /\ PriorityPairs[i][1] = c
                        /\ \A j \in DOMAIN PriorityPairs :
                              PriorityPairs[j][1] = c => j <= i
        IN  PriorityPairs[last][2]]

\* day3.rs:109-112
calculate_priority(item_type) ==
    IF item_type \in DOMAIN PRIORITY THEN Ok(PRIORITY[item_type])
    ELSE Err("no priority for item type")

PriorityInit ==
    /\ pr_item \in 0..MaxCodePoint
    /\ pr_result = None

PriorityIdle == pr_item = 0 /\ pr_result = None

\* day3.rs:109-112
CalculatePriority ==
    /\ pr_result = None
    /\ pr_result' = calculate_priority(pr_item)
    /\ UNCHANGED <<pr_item, pr_others>>

NextPriority == CalculatePriority

(***************************************************************************)
(* day3.rs: Rucksack::parse                                                *)
(***************************************************************************)

\* char::len_utf8
LenUtf8(c) == IF c < 128 THEN 1 ELSE IF c < 2048 THEN 2 ELSE IF c < 65536 THEN 3 ELSE 4

\* str::len: the length in bytes.
RECURSIVE StrLen(_)
StrLen(str) == IF str = <<>> THEN 0 ELSE LenUtf8(Head(str)) + StrLen(Tail(str))

\* str::is_char_boundary
IsCharBoundary(str, index) ==
    \E k \in 0..Len(str) : StrLen(SubSeq(str, 1, k)) = index

\* The number of characters in the first `index` bytes, index a boundary.
CharsBefore(str, index) ==
    CHOOSE k \in 0..Len(str) : StrLen(SubSeq(str, 1, k)) = index

\* day3.rs:206-210: Compartment::parse, the set of the characters.
CompartmentParse(input) == {input[i] : i \in DOMAIN input}

\* Mutant of calculate_item_type: the second element is not looked for, the
\* smallest common character is returned.
CalculateItemTypeFirstOnly(first, second) ==
    LET intersections == first \cap second
    IN  IF intersections = {} THEN Err("no intersection found")
        ELSE Ok(CHOOSE c \in intersections : \A d \in intersections : c <= d)

\* day3.rs:189-197
calculate_item_type(first, second) ==
    LET intersections == first \cap second
    IN  IF intersections = {} THEN Err("no intersection found")
        ELSE IF Cardinality(intersections) > 1
             THEN Err("more than one intersection found")
             ELSE Ok(CHOOSE c \in intersections : TRUE)

\* day3.rs:172-186; str::split_at panics when the index is inside a character.
RucksackParse(input) ==
    LET delimiter == StrLen(input) \div 2
    IN  IF ~IsCharBoundary(input, delimiter) THEN Err("panic")
        ELSE LET k == CharsBefore(input, delimiter)
                 first == CompartmentParse(SubSeq(input, 1, k))
                 second == CompartmentParse(SubSeq(input, k + 1, Len(input)))
                 item_type == WrapErr("calculate_item_type",
                                      calculate_item_type(first, second))
             IN  IF ~item_type.ok THEN item_type
                 ELSE LET priority == WrapErr("calculate_priority",
                                              calculate_priority(item_type.val))
                      IN  IF ~priority.ok THEN priority
                          ELSE Ok([contents |-> input, priority |-> priority.val])

\* The characters a line given to Rucksack::parse is drawn from: a, b, A, the
\* digit 1 and a two-byte character (U+00E9).
SackChars == {97, 98, 65, 49, 233}

SackLines == SeqsUpTo(SackChars, MaxSackLen)

RucksackInit ==
    /\ rs_input \in SackLines
    /\ rs_result = None

RucksackIdle == rs_input = <<>> /\ rs_result = None

\* day3.rs:172-186
RucksackParseCall ==
    /\ rs_result = None
    /\ rs_result' = RucksackParse(rs_input)
    /\ UNCHANGED <<rs_input, rs_others>>

NextRucksack == RucksackParseCall

(***************************************************************************)
(* day3.rs: part2, Group::parse, Group::score                              *)
(***************************************************************************)
GroupSize == 3

\* The lines a part2 input is drawn from: over the characters a and b.
GroupChars == {97, 98}

GroupLines == SeqsUpTo(GroupChars, MaxGroupLineLen)

\* day3.rs:136-145: the closure of the fold; an empty accumulator is taken
\* to mean "no rucksack seen yet".
GroupFoldBody(acc, sack) ==
    LET contents == {sack.contents[i] : i \in DOMAIN sack.contents}
    IN  IF acc = {} THEN contents ELSE {c \in acc : c \in contents}

RECURSIVE GroupFold(_, _)
GroupFold(acc, rucksacks) ==
    IF rucksacks = <<>> THEN acc
    ELSE GroupFold(GroupFoldBody(acc, Head(rucksacks)), Tail(rucksacks))

\* day3.rs:132-155
GroupScore(rucksacks) ==
    LET intersections == GroupFold({}, rucksacks)
    IN  IF intersections = {} THEN Err("no intersections found")
        ELSE IF Cardinality(intersections) > 1
             THEN Err("more than one intersection found")
             ELSE calculate_priority(CHOOSE c \in intersections : TRUE)

Part2Init ==
    /\ p2_read = <<>>
    /\ p2_chunk = <<>>
    /\ p2_groups = <<>>
    /\ p2_scores = <<>>
    /\ p2_result = None
    /\ p2_pc = "parse"

Part2Idle ==
    /\ p2_read = <<>> /\ p2_chunk = <<>> /\ p2_groups = <<>> /\ p2_scores = <<>>
    /\ p2_result = None /\ p2_pc = "idle"

\* day3.rs:86-89 and 124-130: Group::parse pulls the next line of its chunk
\* and parses it; the chunk is full with its third line; the first Err ends
\* Group::parse, the collection and part2.
P2ParseLine ==
    /\ p2_pc = "parse"
    /\ Len(p2_read) < MaxGroupLines
    /\ \E line \in GroupLines :
          LET r == RucksackParse(line)
          IN  /\ p2_read' = Append(p2_read, line)
              /\ IF ~r.ok
                 THEN /\ p2_result' = r
                      /\ p2_pc' = "returned"
                      /\ UNCHANGED <<p2_chunk, p2_groups>>
                 ELSE /\ IF Len(p2_chunk) + 1 = GroupSize
                         THEN /\ p2_groups' = Append(p2_groups, Append(p2_chunk, r.val))
                              /\ p2_chunk' = <<>>
                         ELSE /\ p2_chunk' = Append(p2_chunk, r.val)
                              /\ UNCHANGED p2_groups
                      /\ UNCHANGED <<p2_result, p2_pc>>
    /\ UNCHANGED <<p2_scores, p2_others>>

\* day3.rs:86-90: the lines are used up; a chunk that was begun is a group,
\* whatever its size; the groups go to score_groups.
P2ParseEnd ==
    /\ p2_pc = "parse"
    /\ p2_groups' = IF p2_chunk = <<>> THEN p2_groups ELSE Append(p2_groups, p2_chunk)
    /\ p2_chunk' = <<>>
    /\ p2_pc' = "score"
    /\ UNCHANGED <<p2_read, p2_scores, p2_result, p2_others>>

\* day3.rs:98-101: one group scored; the first Err ends score_groups.
P2ScoreGroup ==
    /\ p2_pc = "score"
    /\ Len(p2_scores) < Len(p2_groups)
    /\ LET r == GroupScore(p2_groups[Len(p2_scores) + 1])
       IN  IF r.ok
           THEN /\ p2_scores' = Append(p2_scores, r.val)
                /\ UNCHANGED <<p2_result, p2_pc>>
           ELSE /\ p2_result' = r
                /\ p2_pc' = "returned"
                /\ UNCHANGED p2_scores
    /\ UNCHANGED <<p2_read, p2_chunk, p2_groups, p2_others>>

\* day3.rs:102: the sum of the scores is the answer.
P2ScoreEnd ==
    /\ p2_pc = "score"
    /\ Len(p2_scores) = Len(p2_groups)
    /\ p2_result' = Ok(SumSeq(p2_scores))
    /\ p2_pc' = "returned"
    /\ UNCHANGED <<p2_read, p2_chunk, p2_groups, p2_scores, p2_others>>

NextPart2 == P2ParseLine \/ P2ParseEnd \/ P2ScoreGroup \/ P2ScoreEnd

(***************************************************************************)
(* day3.rs: part1, score_rucksacks                                         *)
(***************************************************************************)

\* The lines a part1 input is drawn from: over a, the digit 1 and a two-byte
\* character (U+00E9).
Part1Chars == {97, 49, 233}

Part1Lines == SeqsUpTo(Part1Chars, MaxPart1LineLen)

\* day3.rs:93-95
score_rucksacks(sacks) == SumSeq([i \in DOMAIN sacks |-> sacks[i].priority])

Part1Init ==
    /\ p1_read = <<>>
    /\ p1_sacks = <<>>
    /\ p1_result = None
    /\ p1_pc = "parse"

Part1Idle ==
    /\ p1_read = <<>> /\ p1_sacks = <<>> /\ p1_result = None /\ p1_pc = "idle"

\* day3.rs:52-54: the next line is parsed; the first Err ends the collection
\* and part1, a panic of Rucksack::parse unwinds through part1.
P1ParseLine ==
    /\ p1_pc = "parse"
    /\ Len(p1_read) < MaxPart1Lines
    /\ \E line \in Part1Lines :
          LET r == RucksackParse(line)
          IN  /\ p1_read' = Append(p1_read, line)
              /\ IF ~r.ok
                 THEN /\ p1_result' = r
                      /\ p1_pc' = "returned"
                      /\ UNCHANGED p1_sacks
                 ELSE /\ p1_sacks' = Append(p1_sacks, r.val)
                      /\ UNCHANGED <<p1_result, p1_pc>>
    /\ UNCHANGED p1_others

\* day3.rs:54-55: the lines are used up; the sum of the priorities is the
\* answer.
P1ParseEnd ==
    /\ p1_pc = "parse"
    /\ p1_result' = Ok(score_rucksacks(p1_sacks))
    /\ p1_pc' = "returned"
    /\ UNCHANGED <<p1_read, p1_sacks, p1_others>>

NextPart1 == P1ParseLine \/ P1ParseEnd

(***************************************************************************)
(* main.rs.  The inputs are files included at build time; what a part      *)
(* function returns for them is drawn from the answers 0..MaxAnswer, a     *)
(* Report and a panic.                                                     *)
(***************************************************************************)

\* main.rs:20-22: the run_day! invocations, in their order.
RunDays == <<"day1", "day2", "day3">>

PartResults ==
    {Ok(v) : v \in 0..MaxAnswer} \cup {Err("report"), Err("panic")}

\* Mutant of the ? operator: an Err does not return from main.
ReturnsEarlyNever(r) == FALSE

\* main.rs:10-11: the ? applied to the result of a part function (and the
\* unwinding of a panic in it) leaves main.
ReturnsEarly(r) == ~r.ok

\* main.rs:10-11: the line println! writes for a result; it shows r's value.
PartLine(label, r) == <<label, r>>

MainInit ==
    /\ run_day = 1
    /\ run_pc = "banner"
    /\ run_out = <<>>
    /\ run_calls = <<>>
    /\ run_exit = "running"

MainIdle ==
    /\ run_day = 1 /\ run_pc = "idle" /\ run_out = <<>> /\ run_calls = <<>>
    /\ run_exit = "running"

\* main.rs:17-18
RunBanner ==
    /\ run_pc = "banner"
    /\ run_out' = run_out \o << <<"advent of code 2022">>, <<"">> >>
    /\ run_pc' = "header"
    /\ UNCHANGED <<run_day, run_calls, run_exit, run_others>>

\* main.rs:9
RunHeader ==
    /\ run_pc = "header"
    /\ run_out' = Append(run_out, <<"==", RunDays[run_day]>>)
    /\ run_pc' = "part1"
    /\ UNCHANGED <<run_day, run_calls, run_exit, run_others>>

\* main.rs:10
RunPart1 ==
    /\ run_pc = "part1"
    /\ \E r \in PartResults :
          /\ run_calls' = Append(run_calls, <<RunDays[run_day], "part1", r>>)
          /\ IF ReturnsEarly(r)
             THEN /\ run_exit' = "failure"
                  /\ run_pc' = "exited"
                  /\ UNCHANGED run_out
             ELSE /\ run_out' = Append(run_out, PartLine("part1", r))
                  /\ run_pc' = "part2"
                  /\ UNCHANGED run_exit
    /\ UNCHANGED <<run_day, run_others>>

\* main.rs:11
RunPart2 ==
    /\ run_pc = "part2"
    /\ \E r \in PartResults :
          /\ run_calls' = Append(run_calls, <<RunDays[run_day], "part2", r>>)
          /\ IF ReturnsEarly(r)
             THEN /\ run_exit' = "failure"
                  /\ run_pc' = "exited"
                  /\ UNCHANGED run_out
             ELSE /\ run_out' = Append(run_out, PartLine("part2", r))
                  /\ run_pc' = "blank"
                  /\ UNCHANGED run_exit
    /\ UNCHANGED <<run_day, run_others>>

\* main.rs:12, then the next run_day! invocation, or main.rs:24 after the last.
RunBlank ==
    /\ run_pc = "blank"
    /\ run_out' = Append(run_out, <<"">>)
    /\ IF run_day < Len(RunDays)
       THEN run_day' = run_day + 1 /\ run_pc' = "header" /\ UNCHANGED run_exit
       ELSE run_exit' = "success" /\ run_pc' = "exited" /\ UNCHANGED run_day
    /\ UNCHANGED <<run_calls, run_others>>

NextMain == RunBanner \/ RunHeader \/ RunPart1 \/ RunPart2 \/ RunBlank

InitMain ==
    MainInit /\ MultiMaxIdle /\ Day1Idle /\ Day2Idle /\ PriorityIdle /\ RucksackIdle
        /\ Part2Idle /\ Part1Idle

SpecMain == InitMain /\ [][NextMain]_vars

Day3Idle == PriorityIdle /\ RucksackIdle /\ Part2Idle /\ Part1Idle /\ MainIdle

InitPriority ==
    PriorityInit /\ RucksackIdle /\ Part2Idle /\ MultiMaxIdle /\ Day1Idle /\ Day2Idle
        /\ MainIdle /\ Part1Idle

SpecPriority == InitPriority /\ [][NextPriority]_vars

InitRucksack ==
    RucksackInit /\ PriorityIdle /\ Part2Idle /\ MultiMaxIdle /\ Day1Idle /\ Day2Idle
        /\ MainIdle /\ Part1Idle

SpecRucksack == InitRucksack /\ [][NextRucksack]_vars

InitPart2 ==
    Part2Init /\ PriorityIdle /\ RucksackIdle /\ MultiMaxIdle /\ Day1Idle /\ Day2Idle
        /\ MainIdle /\ Part1Idle

SpecPart2 == InitPart2 /\ [][NextPart2]_vars

InitMultiMax == MultiMaxInit /\ Day1Idle /\ Day2Idle /\ Day3Idle

InitDay2 == Day2Init /\ MultiMaxIdle /\ Day1Idle /\ Day3Idle

SpecDay2 == InitDay2 /\ [][NextDay2]_vars

SpecMultiMax == InitMultiMax /\ [][NextMultiMax]_vars

InitDay1 == Day1Init /\ MultiMaxIdle /\ Day2Idle /\ Day3Idle

SpecDay1 == InitDay1 /\ [][NextDay1]_vars

\* The puzzle functions that read their input line by line: the parts of
\* day1 and day2 and part1 of day3, one of them called on one input.
InitPuzzles ==
    \/ Day1Init /\ MultiMaxIdle /\ Day2Idle /\ Day3Idle
    \/ Day2Init /\ MultiMaxIdle /\ Day1Idle /\ Day3Idle
    \/ Part1Init /\ MultiMaxIdle /\ Day1Idle /\ Day2Idle /\ PriorityIdle
          /\ RucksackIdle /\ Part2Idle /\ MainIdle

NextPuzzles ==
    \/ StashFoldStep \/ StashFoldEnd \/ Day1Part1 \/ Day1Part2
    \/ D2ParseLine \/ D2ParseEnd \/ D2ReconstructRound \/ D2ReconstructEnd
    \/ D2ScoreRound \/ D2ScoreEnd
    \/ P1ParseLine \/ P1ParseEnd

SpecPuzzles == InitPuzzles /\ [][NextPuzzles]_vars

(***************************************************************************)
(* C1: for every count K >= 1 and every sequence S, multi_max(S, K)        *)
(* returns a non-decreasing sequence of length min(K, |S|) that is, as a   *)
(* multiset, the K largest elements of S (every returned value occurs in   *)
(* S at least as often, and every value of S left out is <= every          *)
(* returned value); the result is the same for every permutation of S, so  *)
(* is its sum; it is empty for empty S and all of S when |S| <= K.         *)
(***************************************************************************)
IsTopK(r, S, K) ==
    /\ IsNonDecreasing(r)
    /\ Len(r) = Min2(K, Len(S))
    /\ \A v \in 0..MaxItem :
          /\ Occurrences(r, v) <= Occurrences(S, v)
          /\ Occurrences(r, v) < Occurrences(S, v) =>
                \A i \in DOMAIN r : v <= r[i]

C1_TopK ==
    (mm_pc = "returned" /\ count >= 1) =>
        /\ IsTopK(maxes, mm_input, count)
        /\ \A p \in Permutations_(mm_input) :
              /\ multi_max(p, count) = maxes
              /\ SumSeq(multi_max(p, count)) = SumSeq(maxes)
        /\ mm_input = <<>> => maxes = <<>>
        /\ Len(mm_input) <= count =>
              /\ Len(maxes) = Len(mm_input)
              /\ \A v \in 0..MaxItem :
                    Occurrences(maxes, v) = Occurrences(mm_input, v)

\* A run that filled the buffer and then saw a larger value arrive, over an
\* input with a repeated value.
C1_Witness ==
    /\ mm_pc = "returned"
    /\ count >= 2
    /\ Len(mm_input) > count
    /\ \E i \in DOMAIN mm_input : i > count /\ mm_input[i] > mm_input[1]
    /\ \E i, j \in DOMAIN mm_input : i # j /\ mm_input[i] = mm_input[j]

(***************************************************************************)
(* C2: constraint resolution inverts outcome evaluation: for every         *)
(* opponent move O and constraint C, desired_move(O, C) is Ok(P), never    *)
(* the "no possible move" error, with evaluate_round(O, P) equal to C; so  *)
(* every round part2 reconstructs has the outcome its line asked for.      *)
(***************************************************************************)
C2_Inverse ==
    /\ \A O \in Moves, C \in Outcomes :
          /\ desired_move(O, C).ok
          /\ desired_move(O, C).val \in Moves
          /\ evaluate_round(O, desired_move(O, C).val) = C
    /\ d2_result # Err("no possible move found")
    /\ d2_mode = "constraint" =>
          \A i \in DOMAIN d2_rounds :
              /\ d2_rounds[i][1] = d2_parsed[i][1]
              /\ d2_rounds[i][2] \in Moves
              /\ evaluate_round(d2_rounds[i][1], d2_rounds[i][2]) = d2_parsed[i][2]

\* part2 has reconstructed rounds for all three constraints.
C2_Witness ==
    /\ d2_mode = "constraint"
    /\ d2_pc = "returned"
    /\ d2_result.ok
    /\ {d2_parsed[i][2] : i \in DOMAIN d2_parsed} = Outcomes
    /\ Len(d2_rounds) = Len(d2_parsed)

(***************************************************************************)
(* C3: outcome evaluation is total and antisymmetric: comparing move a as  *)
(* OpponentMove with move b as PlayerMove yields one of Less, Equal,       *)
(* Greater (never None), Equal exactly when a = b, and the comparison of b *)
(* as PlayerMove with a as OpponentMove yields the reversed ordering; the  *)
(* relation is the cyclic dominance Rock beats Scissors, Scissors beats    *)
(* Paper, Paper beats Rock.                                                *)
(***************************************************************************)
Beats(a, b) ==
    <<a, b>> \in {<<"Rock", "Scissors">>, <<"Scissors", "Paper">>, <<"Paper", "Rock">>}

Reversed(ordering) ==
    CASE ordering = "Less" -> "Greater"
      [] ordering = "Greater" -> "Less"
      [] ordering = "Equal" -> "Equal"

\* The outcome for the player under the cyclic dominance rule.
DominanceOutcome(opponent, player) ==
    IF opponent = player THEN "Draw"
    ELSE IF Beats(player, opponent) THEN "PlayerWin"
    ELSE "PlayerLose"

C3_Antisymmetric ==
    /\ \A a \in Moves, b \in Moves :
          /\ OpponentPartialCmp(a, b) \in {"Less", "Equal", "Greater"}
          /\ OpponentPartialCmp(a, b) = "Equal" <=> a = b
          /\ PlayerPartialCmp(b, a) = Reversed(OpponentPartialCmp(a, b))
          /\ OpponentPartialCmp(a, b) = "Greater" <=> Beats(a, b)
          /\ OpponentPartialCmp(a, b) = "Less" <=> Beats(b, a)
          /\ evaluate_round(a, b) = DominanceOutcome(a, b)
    /\ \A i \in DOMAIN d2_scores :
          d2_scores[i] - PlayerMoveScore(d2_rounds[i][2])
              = RoundScore(DominanceOutcome(d2_rounds[i][1], d2_rounds[i][2]))

\* part1 has scored a round and its mirror image.
C3_Witness ==
    /\ d2_mode = "direct"
    /\ d2_pc = "returned"
    /\ \E i, j \in DOMAIN d2_scores :
          /\ d2_rounds[i][1] = d2_rounds[j][2]
          /\ d2_rounds[i][2] = d2_rounds[j][1]
          /\ Beats(d2_rounds[i][1], d2_rounds[i][2])

(***************************************************************************)
(* What the claims about day3 say a priority is: a..z are 1..26 and A..Z   *)
(* are 27..52.                                                             *)
(***************************************************************************)
Letters == (97..122) \cup (65..90)

ClaimedPriority(c) == IF c >= 97 THEN c - 96 ELSE c - 38

CharSet(str) == {str[i] : i \in DOMAIN str}

(***************************************************************************)
(* C4 as claimed: for every group of three parsed rucksacks that has been  *)
(* scored, Group::score is the "no intersections" error when no character  *)
(* occurs in all three lines, the "more than one intersection" error when  *)
(* two or more do, and otherwise the priority of the one character that    *)
(* occurs in all three; a returned badge occurs in every line.             *)
(***************************************************************************)
\* Group i has been scored: its score was collected, or it is the group
\* whose Err (a chain without a context) ended score_groups.
GroupScored(i) ==
    \/ i <= Len(p2_scores)
    \/ /\ i = Len(p2_scores) + 1
       /\ p2_pc = "returned"
       /\ ~p2_result.ok
       /\ Len(p2_result.err) = 1

GroupOutcome(i) == IF i <= Len(p2_scores) THEN Ok(p2_scores[i]) ELSE p2_result

InAllLines(group) ==
    {c \in CharSet(group[1].contents) : \A n \in DOMAIN group : c \in CharSet(group[n].contents)}

C4_AsClaimed ==
    \A i \in DOMAIN p2_groups :
        (Len(p2_groups[i]) = 3 /\ GroupScored(i)) =>
            LET common == InAllLines(p2_groups[i])
            IN  /\ common = {} => GroupOutcome(i) = Err("no intersections found")
                /\ Cardinality(common) >= 2 =>
                      GroupOutcome(i) = Err("more than one intersection found")
                /\ Cardinality(common) = 1 =>
                      \A c \in common : GroupOutcome(i) = calculate_priority(c)
                /\ GroupOutcome(i).ok =>
                      \E c \in common : GroupOutcome(i).val = ClaimedPriority(c)

(***************************************************************************)
(* C5 as amended: for every line whose byte midpoint falls between two     *)
(* characters (every line of one-byte characters), Rucksack::parse fails   *)
(* with the empty-intersection error when the character sets of the two    *)
(* halves are disjoint, with the more-than-one-intersection error when     *)
(* they share two or more characters, with the no-priority error when the  *)
(* single shared character is not one of a..z, A..Z, and otherwise yields  *)
(* the priority of the single shared character; a line whose byte midpoint *)
(* falls inside a character makes the call panic.                          *)
(***************************************************************************)
MidpointIsBoundary(line) == IsCharBoundary(line, StrLen(line) \div 2)

FirstHalf(line) == SubSeq(line, 1, CharsBefore(line, StrLen(line) \div 2))

SecondHalf(line) ==
    SubSeq(line, CharsBefore(line, StrLen(line) \div 2) + 1, Len(line))

SharedByHalves(line) == CharSet(FirstHalf(line)) \cap CharSet(SecondHalf(line))

BlankPositions(L) == {i \in DOMAIN L : L[i] = <<>>}

\* Position of the k-th blank line; 0 for k = 0, Len(L) + 1 past the last one.
KthBlank(L, k) ==
    IF k = 0 THEN 0
    ELSE IF k > Cardinality(BlankPositions(L)) THEN Len(L) + 1
    ELSE CHOOSE i \in BlankPositions(L) :
            Cardinality({j \in BlankPositions(L) : j <= i}) = k

\* Sum of the numbers on the lines strictly between positions lo and hi.
SumBetween(L, lo, hi) ==
    SumSeq([i \in 1..(hi - lo - 1) |-> ParseUsize(L[lo + i]).val])

SegmentTotals(L) ==
    [k \in 1..(Cardinality(BlankPositions(L)) + 1) |->
        SumBetween(L, KthBlank(L, k - 1), KthBlank(L, k))]

LeadingBlank(L) == L # <<>> /\ L[1] = <<>>
TrailingBlank(L) == L # <<>> /\ L[Len(L)] = <<>>
HasNumber(L) == \E i \in DOMAIN L : L[i] # <<>>
WellFormedDay1(L) == \A i \in DOMAIN L : L[i] = <<>> \/ ParseUsize(L[i]).ok

(***************************************************************************)
(* C6 as amended: group_stashes accepts every input whose lines are blank  *)
(* or numbers, and returns, in input order, the sum of each segment        *)
(* between blank lines, where the segment in front of the first blank line *)
(* yields a total only when it is not empty.  Every blank line starts a    *)
(* new total of 0; a trailing blank line leaves a final zero total; the    *)
(* zero total of a leading blank line is the total the following numbers   *)
(* are added to, so no zero total stands in front of the first numeric     *)
(* group's total when a number follows a single leading blank line.        *)
(***************************************************************************)
C6_Stashes ==
    gs_pc = "returned" =>
        LET L == Lines(gs_input)
            totals == SegmentTotals(L)
        IN  /\ gs_result.ok <=> WellFormedDay1(L)
            /\ gs_result.ok =>
                  /\ gs_result.val =
                        IF L = <<>> \/ LeadingBlank(L) THEN Tail(totals) ELSE totals
                  /\ TrailingBlank(L) => gs_result.val[Len(gs_result.val)] = 0
                  /\ (LeadingBlank(L) /\ Len(L) >= 2 /\ L[2] # <<>>) =>
                        /\ gs_result.val[1] = totals[2]
                        /\ gs_result.val[1] > 0

\* Accepted input with a leading blank line, a group of two numbers and a
\* trailing blank line.
C6_Witness ==
    /\ gs_pc = "returned"
    /\ gs_result.ok
    /\ LeadingBlank(Lines(gs_input))
    /\ TrailingBlank(Lines(gs_input))
    /\ \E i \in 1..(Len(Lines(gs_input)) - 1) :
          Lines(gs_input)[i] # <<>> /\ Lines(gs_input)[i + 1] # <<>>

(***************************************************************************)
(* C6 as claimed: in particular a leading blank line that numbers follow   *)
(* produces a zero total in front of the first numeric group's total.      *)
(***************************************************************************)
C6_AsClaimed ==
    (gs_pc = "returned" /\ gs_result.ok) =>
        LET L == Lines(gs_input)
        IN  /\ TrailingBlank(L) => gs_result.val[Len(gs_result.val)] = 0
            /\ (LeadingBlank(L) /\ HasNumber(L)) =>
                  /\ gs_result.val[1] = 0
                  /\ Len(gs_result.val) = Cardinality(BlankPositions(L)) + 1

(***************************************************************************)
(* C7 as claimed: the outcome of part2 for a group of three lines is       *)
(* determined by the full character sets of the three lines alone: three   *)
(* lines whose full character sets share exactly one alphabetic character  *)
(* yield that character's priority, whatever the two halves of a line have *)
(* in common.                                                              *)
(***************************************************************************)
InAllRead == {c \in CharSet(p2_read[1]) : \A n \in DOMAIN p2_read : c \in CharSet(p2_read[n])}

C7_AsClaimed ==
    (p2_pc = "returned" /\ Len(p2_read) = 3) =>
        \A c \in Letters :
            InAllRead = {c} => p2_result = Ok(ClaimedPriority(c))

(***************************************************************************)
(* C8: round_score(O, P) is the outcome score of the round (Lose 0, Draw   *)
(* 3, Win 6) plus the score of the player's move (Rock 1, Paper 2,         *)
(* Scissors 3); the score of a list of rounds is the sum of the round      *)
(* scores; the lines "A Y", "B X", "C Z" total 15 in direct mode and 12 in *)
(* constraint mode.                                                        *)
(***************************************************************************)
ClaimedOutcomeScore(outcome) ==
    CASE outcome = "PlayerLose" -> 0 [] outcome = "Draw" -> 3 [] outcome = "PlayerWin" -> 6

ClaimedMoveScore(move) ==
    CASE move = "Rock" -> 1 [] move = "Paper" -> 2 [] move = "Scissors" -> 3

ClaimedRoundScore(opponent, player) ==
    ClaimedOutcomeScore(DominanceOutcome(opponent, player)) + ClaimedMoveScore(player)

ExampleRounds == << <<"A", " ", "Y">>, <<"B", " ", "X">>, <<"C", " ", "Z">> >>

C8_Scores ==
    /\ \A O \in Moves, P \in Moves :
          /\ round_score(O, P) = ClaimedRoundScore(O, P)
          /\ round_score(O, P)
                = ClaimedOutcomeScore(evaluate_round(O, P)) + ClaimedMoveScore(P)
    /\ \A i \in DOMAIN d2_scores :
          d2_scores[i] = ClaimedRoundScore(d2_rounds[i][1], d2_rounds[i][2])
    /\ (d2_pc = "returned" /\ d2_result.ok) =>
          /\ Len(d2_rounds) = Len(d2_read)
          /\ d2_result.val =
                SumSeq([i \in DOMAIN d2_rounds |->
                          ClaimedRoundScore(d2_rounds[i][1], d2_rounds[i][2])])
          /\ d2_read = ExampleRounds =>
                d2_result.val = IF d2_mode = "direct" THEN 15 ELSE 12

\* part2 has returned the total of the three example lines.
C8_Witness ==
    /\ d2_pc = "returned"
    /\ d2_mode = "constraint"
    /\ d2_read = ExampleRounds
    /\ d2_result = Ok(12)

(***************************************************************************)
(* C9: the priority table is a bijection from the 52 characters a..z, A..Z *)
(* onto 1..52, a..z mapped to 1..26 and A..Z to 27..52 in alphabetical     *)
(* order, and calculate_priority returns an error, never a number, for     *)
(* every other character.                                                  *)
(***************************************************************************)
C9_Priority ==
    /\ DOMAIN PRIORITY = Letters
    /\ Cardinality(DOMAIN PRIORITY) = 52
    /\ {PRIORITY[c] : c \in DOMAIN PRIORITY} = 1..52
    /\ \A c, d \in DOMAIN PRIORITY : PRIORITY[c] = PRIORITY[d] => c = d
    /\ \A n \in 0..25 : PRIORITY[97 + n] = 1 + n /\ PRIORITY[65 + n] = 27 + n
    /\ pr_result # None =>
          IF pr_item \in Letters
          THEN pr_result = Ok(ClaimedPriority(pr_item))
          ELSE ~pr_result.ok /\ pr_result = Err("no priority for item type")

\* calculate_priority has been asked for 'Z'.
C9_Witness == pr_item = 90 /\ pr_result = Ok(52)

(***************************************************************************)
(* C10: the runner handles day1, day2, day3 in this order and, within      *)
(* each, prints the header, then the part 1 answer, then the part 2        *)
(* answer; the first part that fails ends the run with an error, no later  *)
(* answer is computed or printed, and the run ends successfully only after *)
(* all six answers have been printed.                                      *)
(***************************************************************************)
\* The part functions in the order the claim gives: call i is part 1 + (i+1)%2
\* of day (i+1) \div 2.
ClaimedCall(i) ==
    << <<"day1", "day2", "day3">>[(i + 1) \div 2],
       IF i % 2 = 1 THEN "part1" ELSE "part2" >>

\* The i-th line of the report, given the calls made: two banner lines, then
\* for each day its header, its two answers and an empty line.
ClaimedLine(i) ==
    IF i = 1 THEN <<"advent of code 2022">>
    ELSE IF i = 2 THEN <<"">>
    ELSE LET day == (i - 3) \div 4 + 1
             row == (i - 3) % 4
         IN  CASE row = 0 -> <<"==", <<"day1", "day2", "day3">>[day]>>
               [] row = 1 -> <<"part1", run_calls[2 * day - 1][3]>>
               [] row = 2 -> <<"part2", run_calls[2 * day][3]>>
               [] row = 3 -> <<"">>

\* The lines in front of the answer of call i: the 2 banner lines, 4 lines per
\* earlier day, the header, and the part 1 answer in front of a part 2 answer.
LinesBeforeAnswer(i) == 3 + 4 * ((i - 1) \div 2) + ((i - 1) % 2)

\* The call whose answer line i of the report shows (0: not an answer line).
CallOfLine(i) ==
    IF i < 3 THEN 0
    ELSE CASE (i - 3) % 4 = 1 -> 2 * ((i - 3) \div 4) + 1
           [] (i - 3) % 4 = 2 -> 2 * ((i - 3) \div 4) + 2
           [] OTHER -> 0

C10_RunOrder ==
    /\ Len(run_calls) <= 6
    /\ \A i \in DOMAIN run_calls :
          /\ <<run_calls[i][1], run_calls[i][2]>> = ClaimedCall(i)
          /\ i < Len(run_calls) => run_calls[i][3].ok
          /\ run_calls[i][3].ok => Len(run_out) > LinesBeforeAnswer(i)
    /\ Len(run_out) <= 14
    /\ \A i \in DOMAIN run_out :
          /\ CallOfLine(i) <= Len(run_calls)
          /\ CallOfLine(i) > 0 => run_calls[CallOfLine(i)][3].ok
          /\ run_out[i] = ClaimedLine(i)
    /\ run_exit = "failure" <=>
          (run_calls # <<>> /\ ~run_calls[Len(run_calls)][3].ok)
    /\ run_exit = "failure" =>
          /\ run_pc = "exited"
          /\ Len(run_out) = LinesBeforeAnswer(Len(run_calls))
    /\ run_exit = "success" =>
          /\ run_pc = "exited"
          /\ Len(run_calls) = 6
          /\ \A i \in 1..6 : run_calls[i][3].ok
          /\ Len(run_out) = 14
    /\ run_pc = "exited" <=> run_exit # "running"

\* The run ended with an error in day3's part 1, after four answers.
C10_Witness ==
    /\ run_exit = "failure"
    /\ Len(run_calls) = 5
    /\ Len(run_out) = 11

(***************************************************************************)
(* C11 as claimed: in day1 part1/part2, day2 part1/part2 and day3 part1,   *)
(* when a line of the input is malformed, wherever it stands, the function *)
(* returns an error, and never a number.  A day1 line is malformed when it *)
(* is not blank and not a non-negative integer (digits, with or without a  *)
(* plus sign in front), a day2 line when it is not 3 characters long or   *)
(* its first or third character is not a known token, a day3 line when    *)
(* its halves do not share exactly one character that has a priority.     *)
(***************************************************************************)
IsNumeral(line) ==
    LET ds == IF line # <<>> /\ Head(line) = "+" THEN Tail(line) ELSE line
    IN  ds # <<>> /\ \A i \in DOMAIN ds : ds[i] \in Digits

Day1Malformed(line) == line # <<>> /\ ~IsNumeral(line)

Day2Malformed(line) ==
    \/ Len(line) # 3
    \/ line[1] \notin {"A", "B", "C"}
    \/ line[3] \notin {"X", "Y", "Z"}

Day3Malformed(line) ==
    ~( /\ MidpointIsBoundary(line)
       /\ Cardinality(SharedByHalves(line)) = 1
       /\ SharedByHalves(line) \subseteq Letters )

HasMalformed1 == \E i \in DOMAIN Lines(gs_input) : Day1Malformed(Lines(gs_input)[i])
HasMalformed2 == \E i \in DOMAIN d2_read : Day2Malformed(d2_read[i])
HasMalformed3 == \E i \in DOMAIN p1_read : Day3Malformed(p1_read[i])

\* The function returned an Err: it did not return a number, is not still
\* running and did not panic.
ReturnedError(r) == ~r.ok /\ r # None /\ r # Err("panic")

C11_AsClaimed ==
    /\ (HasMalformed1 /\ gs_pc = "returned") =>
          /\ ReturnedError(gs_result)
          /\ d1_part1 # None => ReturnedError(d1_part1)
          /\ d1_part2 # None => ReturnedError(d1_part2)
    /\ HasMalformed2 => d2_pc = "returned" /\ ReturnedError(d2_result)
    /\ HasMalformed3 => p1_pc = "returned" /\ ReturnedError(p1_result)

\* What holds of a malformed line: no function returns a number.
C11_NoNumber ==
    /\ (HasMalformed1 /\ gs_pc = "returned") =>
          ~gs_result.ok /\ ~d1_part1.ok /\ ~d1_part2.ok
    /\ HasMalformed2 => d2_pc = "returned" /\ ~d2_result.ok
    /\ HasMalformed3 => p1_pc = "returned" /\ ~p1_result.ok

\* Part1 of day3 returned an Err for a malformed line that follows a
\* well-formed one.
C11_ErrReached ==
    /\ Len(p1_read) = 2
    /\ ~Day3Malformed(p1_read[1])
    /\ ReturnedError(p1_result)

(***************************************************************************)
(* C12: while multi_max(S, K) consumes S, after each consumed element the  *)
(* buffer is ascending and holds min(K, n) values, n the number of         *)
(* elements consumed so far; when the buffer is full, an incoming value    *)
(* strictly greater than the buffer's minimum replaces exactly that        *)
(* minimum, which is the first entry strictly less than it, every other    *)
(* entry being kept, and an incoming value less than or equal to every     *)
(* entry leaves the buffer unchanged.                                      *)
(***************************************************************************)
Consumed == Len(mm_input) - Len(mm_iter)

\* new is old with one occurrence of `out` taken away and one of `in` added.
ReplacesOne(old, new, out, in) ==
    /\ Len(new) = Len(old)
    /\ \A w \in 0..(MaxItem + 1) :
          Occurrences(new, w) =
              Occurrences(old, w) - (IF w = out THEN 1 ELSE 0)
                                  + (IF w = in THEN 1 ELSE 0)

C12_Buffer ==
    /\ [](mm_pc # "idle" =>
            /\ IsNonDecreasing(maxes)
            /\ Len(maxes) = Min2(count, Consumed))
    /\ [][(mm_iter' # mm_iter /\ Len(maxes) = count) =>
            LET incoming == Head(mm_iter)
            IN  /\ (maxes # <<>> /\ incoming > maxes[1]) =>
                      /\ \A i \in DOMAIN maxes : maxes[1] <= maxes[i]
                      /\ ReplacesOne(maxes, maxes', maxes[1], incoming)
                /\ (\A i \in DOMAIN maxes : incoming <= maxes[i]) =>
                      maxes' = maxes]_vars

\* A full buffer of two had its minimum 1 replaced by the incoming 3, and a
\* value not above the buffer's entries is next.
C12_Witness ==
    /\ mm_pc = "loop"
    /\ count = 2
    /\ Consumed = 3
    /\ SubSeq(mm_input, 1, 3) = <<1, 2, 3>>
    /\ maxes = <<2, 3>>
    /\ mm_iter = <<2>>

(***************************************************************************)
(* C13 as claimed: every group day3 part2 has scored consists of exactly   *)
(* three rucksack lines, the lines being consumed in consecutive chunks of *)
(* three; when the number of lines is not a multiple of 3, no badge        *)
(* priority is computed from a group of one or two lines, and part2 does   *)
(* not return a sum then.                                                  *)
(***************************************************************************)
C13_AsClaimed ==
    /\ \A i \in 1..Len(p2_scores) :
          /\ Len(p2_groups[i]) = GroupSize
          /\ \A j \in 1..GroupSize :
                p2_groups[i][j].contents = p2_read[GroupSize * (i - 1) + j]
    /\ p2_result.ok => Len(p2_read) % GroupSize = 0

=============================================================================
